---- MODULE Spec2Model ----
(***************************************************************************)
(* Knowledge Vault semantic retrieval: the per-user FAISS index service    *)
(* (app/services/faiss_service.py) and the library router that drives it   *)
(* (app/routers/library.py).                                               *)
(*                                                                         *)
(* Vectors.  A float32 row is modelled exactly as a record [v, d] that     *)
(* stands for the real vector v / sqrt(d), v a tuple of integers.  A row   *)
(* built by _to_np has d = 1; normalize_L2 turns v/sqrt(d) into            *)
(* p / sqrt(p.p), p the primitive integer vector of the direction of v.    *)
(* Inner products are compared by exact cross-multiplication.              *)
(* Rows are numbered from 1 here and from 0 in the code.                   *)
(***************************************************************************)
EXTENDS Integers, Sequences, FiniteSets, TLC

\* ------------------------------------------------------------------ bounds
MaxRows == 3        \* rows (and mapping entries) an owner's files may hold
MaxBatch == 2       \* longest chunk_ids / embeddings argument of add_batch
MaxK == 2           \* largest k passed to search
MaxSaves == 2       \* _save calls followed when calls are taken step by step
MaxChunks == 2      \* most chunks the chunker cuts one document into
MaxTextWords == 5   \* most words of a text handed to semantic_chunk_text
MaxMaxWords == 3    \* largest max_words handed to semantic_chunk_text

\* --------------------------------------------------------------- constants
EMBEDDING_DIM == 2  \* 768 in the code; two dimensions keep the geometry

Owners == {"U1", "U2"}
Ids == {"c1", "c2", "c3"}
\* embeddings a caller may pass (two directions, one of them not of unit
\* length), a vector of the wrong dimension, and the queries of search
Vectors == {<<2, 0>>, <<0, 1>>}
BadVector == <<1>>
Queries == {<<1, 0>>, <<1, 1>>, BadVector}

VARIABLES
    idxFile,    \* per owner, the {user_id}.index file: the rows of the flat index
    mapFile,    \* per owner, the {user_id}.json file: the chunk-id mapping
    ret,        \* the last call and what it returned
    added,      \* history: per owner, the ids add_batch has persisted so far
    proc,       \* per request in flight, the call it is in and its local state
    idxVer,     \* history: per owner, the _save call that wrote the index file
    mapVer,     \* history: per owner, the _save call that wrote the mapping file
    nsaves,     \* history: the _save calls started so far
    items,      \* record store: per document, its committed UserLibraryItem row
    chunks,     \* record store: the committed DocChunk rows
    nextUuid,   \* how many chunk ids uuid4 has handed out
    lastReq,    \* the last library request and how it ended
    vault,      \* what the last request did and answered, if it was a vault query
    gone,       \* history: the ids of the chunks of the documents deleted so far
    chunkCall,  \* a call of semantic_chunk_text: its arguments and what it returned
    embedCall   \* a call of an embedding function: what the providers do and
                \* what it returned

fsVars == <<idxFile, mapFile>>
verVars == <<idxVer, mapVer, nsaves>>
stepVars == <<proc, verVars>>
pureVars == <<chunkCall, embedCall>>
dbVars == <<items, chunks, nextUuid, lastReq, vault, gone, pureVars>>
vars == <<idxFile, mapFile, ret, added, proc, idxVer, mapVer, nsaves,
          items, chunks, nextUuid, lastReq, vault, gone, chunkCall, embedCall>>

\* ----------------------------------------------------------- vector maths
Abs(n) == IF n < 0 THEN -n ELSE n

RECURSIVE Gcd(_, _)
Gcd(a, b) == IF b = 0 THEN a ELSE Gcd(b, a % b)

RECURSIVE GcdSeq(_)
GcdSeq(v) == IF v = <<>> THEN 0 ELSE Gcd(Abs(Head(v)), GcdSeq(Tail(v)))

RECURSIVE Dot(_, _)
Dot(a, b) == IF a = <<>> \/ b = <<>> THEN 0
             ELSE Head(a) * Head(b) + Dot(Tail(a), Tail(b))

\* a conversion that fits every vector to the index's dimension, cutting the
\* longer and padding the shorter with zeros
ToNpResized(vectors) ==
    [i \in 1..Len(vectors) |->
        [v |-> [j \in 1..EMBEDDING_DIM |->
                   IF j <= Len(vectors[i]) THEN vectors[i][j] ELSE 0],
         d |-> 1]]

\* _to_np: list of lists -> float32 matrix, one row per embedding
ToNp(vectors) == [i \in 1..Len(vectors) |-> [v |-> vectors[i], d |-> 1]]

\* faiss.normalize_L2 on one row: a zero row is left as it is
NormalizeRow(r) ==
    IF Dot(r.v, r.v) = 0 THEN r
    ELSE LET g == GcdSeq(r.v)
             p == [i \in 1..Len(r.v) |-> r.v[i] \div g]
         IN [v |-> p, d |-> Dot(p, p)]

\* _normalize: every row of the matrix
Normalize(mat) == [i \in 1..Len(mat) |-> NormalizeRow(mat[i])]

\* inner product of two rows, as the pair [n, d] standing for n / sqrt(d)
IP(a, b) == [n |-> Dot(a.v, b.v), d |-> a.d * b.d]

SignSq(n) == IF n < 0 THEN -(n * n) ELSE n * n
ScoreGT(s, t) == SignSq(s.n) * t.d > SignSq(t.n) * s.d
ScoreGE(s, t) == SignSq(s.n) * t.d >= SignSq(t.n) * s.d

\* ------------------------------------------------------------ index files
NoFile == [exists |-> FALSE, data |-> <<>>]
File(data) == [exists |-> TRUE, data |-> data]

\* _load: (index rows, mapping); an empty pair unless both files exist
Load(idx, map) ==
    IF idx.exists /\ map.exists
    THEN [rows |-> idx.data, mapping |-> map.data]
    ELSE [rows |-> <<>>, mapping |-> <<>>]

\* IndexFlatIP.add asserts the matrix width
DimOk(mat) == \A i \in 1..Len(mat) : Len(mat[i].v) = EMBEDDING_DIM

\* IndexFlatIP.search for one query: the k best rows, best first; of equally
\* scored rows the earlier one comes first
RECURSIVE TopK(_, _, _, _)
TopK(rows, q, k, taken) ==
    IF k = 0 \/ (1..Len(rows)) \ taken = {} THEN <<>>
    ELSE LET cand == (1..Len(rows)) \ taken
             best == CHOOSE i \in cand : \A j \in cand :
                        /\ ~ScoreGT(IP(rows[j], q), IP(rows[i], q))
                        /\ (j < i => ScoreGT(IP(rows[i], q), IP(rows[j], q)))
         IN <<best>> \o TopK(rows, q, k - 1, taken \cup {best})

RECURSIVE MapIds(_, _)
MapIds(indices, mapping) ==
    IF indices = <<>> THEN <<>>
    ELSE (IF Head(indices) <= Len(mapping) THEN <<mapping[Head(indices)]>> ELSE <<>>)
         \o MapIds(Tail(indices), mapping)

Min(a, b) == IF a < b THEN a ELSE b

Range(seq) == {seq[i] : i \in 1..Len(seq)}

\* search: what it returns on the loaded pair ld
SearchOut(ld, q, k) ==
    IF Len(ld.rows) = 0 \/ ld.mapping = <<>>
    THEN [status |-> "ok", ids |-> <<>>]
    ELSE LET mat == Normalize(ToNp(<<q>>))
         IN IF ~DimOk(mat) THEN [status |-> "raise", ids |-> <<>>]
            ELSE [status |-> "ok",
                  ids |-> MapIds(TopK(ld.rows, mat[1], Min(k, Len(ld.rows)), {}),
                                 ld.mapping)]

\* remove_chunks: keep = the mapping positions whose id is not removed
RECURSIVE Keep(_, _, _)
Keep(mapping, chunk_ids, i) ==
    IF i > Len(mapping) THEN <<>>
    ELSE (IF mapping[i] \in chunk_ids THEN <<>> ELSE <<i>>)
         \o Keep(mapping, chunk_ids, i + 1)

\* a rebuild that walks the kept positions backwards
SelectReversed(seq, keep) == [j \in 1..Len(keep) |-> seq[keep[Len(keep) + 1 - j]]]

\* all_vecs[keep], [mapping[i] for i in keep]
Select(seq, keep) == [j \in 1..Len(keep) |-> seq[keep[j]]]

\* a remove_chunks without the early returns: it rebuilds and saves whatever
\* it loaded, also when the mapping is empty or no id of chunk_ids is in it
RemoveOutRewrite(ld, chunk_ids) ==
    LET keep == Keep(ld.mapping, chunk_ids, 1)
    IN IF \E j \in 1..Len(keep) : keep[j] > Len(ld.rows)
       THEN [act |-> "raise", rows |-> <<>>, mapping |-> <<>>]
       ELSE [act |-> "save", rows |-> Select(ld.rows, keep),
             mapping |-> Select(ld.mapping, keep)]

\* remove_chunks on the loaded pair ld:
\* "noop" (early return), "save" the pair (rows, mapping), or "raise"
RemoveOut(ld, chunk_ids) ==
    LET keep == Keep(ld.mapping, chunk_ids, 1)
        none == [act |-> "noop", rows |-> <<>>, mapping |-> <<>>]
    IN IF ld.mapping = <<>> THEN none
       ELSE IF Len(keep) = Len(ld.mapping) THEN none
       ELSE IF keep = <<>> THEN [act |-> "save", rows |-> <<>>, mapping |-> <<>>]
       ELSE IF Len(ld.rows) = 0                       \* np.vstack of nothing
            THEN [none EXCEPT !.act = "raise"]
       ELSE IF \E j \in 1..Len(keep) : keep[j] > Len(ld.rows)  \* all_vecs[keep]
            THEN [none EXCEPT !.act = "raise"]
       ELSE [act |-> "save", rows |-> Select(ld.rows, keep),
             mapping |-> Select(ld.mapping, keep)]

\* an add_batch that puts the new ids in front of the mapping
AddOutPrepend(ld, chunk_ids, embeddings) ==
    IF chunk_ids = <<>> \/ embeddings = <<>>
    THEN [act |-> "noop", rows |-> <<>>, mapping |-> <<>>]
    ELSE LET mat == Normalize(ToNp(embeddings))
         IN IF ~DimOk(mat) THEN [act |-> "raise", rows |-> <<>>, mapping |-> <<>>]
            ELSE [act |-> "save", rows |-> ld.rows \o mat,
                  mapping |-> chunk_ids \o ld.mapping]

\* add_batch on the loaded pair ld: "noop", "save" or "raise"
AddOut(ld, chunk_ids, embeddings) ==
    IF chunk_ids = <<>> \/ embeddings = <<>>
    THEN [act |-> "noop", rows |-> <<>>, mapping |-> <<>>]
    ELSE LET mat == Normalize(ToNp(embeddings))
         IN IF ~DimOk(mat) THEN [act |-> "raise", rows |-> <<>>, mapping |-> <<>>]
            ELSE [act |-> "save", rows |-> ld.rows \o mat,
                  mapping |-> ld.mapping \o chunk_ids]

\* a user_has_index that takes an empty index for a missing one
UserHasIndexNonEmpty(idx) == idx.exists /\ idx.data # <<>>

\* user_has_index
UserHasIndexOut(idx) == idx.exists

\* ---------------------------------------------------------------- inputs
RECURSIVE SeqsUpTo(_, _)
SeqsUpTo(S, n) ==
    IF n = 0 THEN {<<>>}
    ELSE LET shorter == SeqsUpTo(S, n - 1)
         IN shorter \cup {Append(s, x) : s \in {t \in shorter : Len(t) = n - 1}, x \in S}

IdBatches == SeqsUpTo(Ids, MaxBatch)
VecBatches == SeqsUpTo(Vectors, MaxBatch) \cup {<<BadVector>>, <<<<2, 0>>, BadVector>>}

Ret(op, o, status, ids, flag) ==
    [op |-> op, owner |-> o, status |-> status, ids |-> ids, flag |-> flag]

\* documents of the owner Caller, and the ids uuid4 hands out, in order
Docs == {"d1", "d2"}
UuidSeq == <<"c1", "c2", "c3">>
NoItem == [exists |-> FALSE, processed |-> FALSE]

\* every document, and UserLibraryItem.user_id: d3 belongs to the other owner
AllDocs == Docs \cup {"d3"}
OwnerOf(d) == IF d \in Docs THEN "U1" ELSE "U2"

\* no vault query has been answered since the last other request
NoVault == [op |-> "none", owner |-> "U1", file_ids |-> {}, allFailed |-> FALSE,
            raised |-> FALSE, embedding |-> <<>>, has_index |-> FALSE,
            ranked |-> <<>>, rows |-> <<>>, path |-> "none", context |-> <<>>,
            outcome |-> "none", asked |-> FALSE, prompt |-> <<>>]

\* no call of semantic_chunk_text is followed
NoChunkCall == [text |-> [n |-> 0, gap |-> <<>>], max_words |-> 1, overlap_words |-> 0,
                done |-> FALSE, chunks |-> <<>>]

\* no call of an embedding function is followed
NoEmbedCall == [fn |-> "none", text |-> "",
                gq |-> [kind |-> "unconfigured", vec |-> <<>>],
                gd |-> [kind |-> "unconfigured", vec |-> <<>>],
                oa |-> [kind |-> "unconfigured", vec |-> <<>>],
                done |-> FALSE, trace |-> <<>>, value |-> <<>>]

\* requests that may be in flight together
Procs == {"p1", "p2"}

\* a request with no call in progress
Idle == [pc |-> "idle"]

\* the local state of a call as it starts
Fresh == [pc |-> "load_idx", op |-> "none", ids |-> <<>>, vecs |-> <<>>, S |-> {},
         q |-> <<>>, k |-> 0, both |-> FALSE, rows |-> <<>>, mapping |-> <<>>,
         iver |-> 0, mver |-> 0, nrows |-> <<>>, nmap |-> <<>>, myver |-> 0,
         status |-> "none", out |-> <<>>, failed |-> FALSE,
         snapIdx |-> NoFile, snapMap |-> NoFile]

\* ------------------------------------- the service, one call at a time
InitStore ==
    /\ idxFile = [o \in Owners |-> NoFile]
    /\ mapFile = [o \in Owners |-> NoFile]
    /\ ret = Ret("none", "U1", "ok", <<>>, FALSE)
    /\ added = [o \in Owners |-> {}]
    /\ proc = [p \in Procs |-> Idle]
    /\ idxVer = [o \in Owners |-> 0]
    /\ mapVer = [o \in Owners |-> 0]
    /\ nsaves = 0
    /\ items = [d \in AllDocs |-> NoItem]
    /\ chunks = {}
    /\ nextUuid = 0
    /\ lastReq = [op |-> "none", doc |-> "d1", status |-> 0]
    /\ vault = NoVault
    /\ gone = {}

Init ==
    /\ InitStore
    /\ chunkCall = NoChunkCall
    /\ embedCall = NoEmbedCall

\* the files stay within the model's size cap
Fits(ld, chunk_ids, embeddings) ==
    /\ Len(ld.rows) + Len(embeddings) <= MaxRows
    /\ Len(ld.mapping) + Len(chunk_ids) <= MaxRows

\* an add_batch whose file paths do not depend on user_id: every owner's
\* batch lands in one pair of files
add_batch_shared(o, chunk_ids, embeddings) ==
    LET r == AddOut(Load(idxFile["U1"], mapFile["U1"]), chunk_ids, embeddings)
    IN /\ Fits(Load(idxFile["U1"], mapFile["U1"]), chunk_ids, embeddings)
       /\ IF r.act = "save"
          THEN /\ idxFile' = [idxFile EXCEPT !["U1"] = File(r.rows)]
               /\ mapFile' = [mapFile EXCEPT !["U1"] = File(r.mapping)]
          ELSE UNCHANGED fsVars
       /\ added' = IF r.act = "save"
                   THEN [added EXCEPT ![o] = @ \cup Range(chunk_ids)]
                   ELSE added
       /\ UNCHANGED <<stepVars, dbVars>>
       /\ ret' = Ret("add_batch", o, IF r.act = "raise" THEN "raise" ELSE "ok",
                     <<>>, FALSE)

add_batch(o, chunk_ids, embeddings) ==
    LET r == AddOut(Load(idxFile[o], mapFile[o]), chunk_ids, embeddings)
    IN /\ Fits(Load(idxFile[o], mapFile[o]), chunk_ids, embeddings)
       /\ IF r.act = "save"
          THEN /\ idxFile' = [idxFile EXCEPT ![o] = File(r.rows)]
               /\ mapFile' = [mapFile EXCEPT ![o] = File(r.mapping)]
          ELSE UNCHANGED fsVars
       /\ added' = IF r.act = "save"
                   THEN [added EXCEPT ![o] = @ \cup Range(chunk_ids)]
                   ELSE added
       /\ UNCHANGED <<stepVars, dbVars>>
       /\ ret' = Ret("add_batch", o, IF r.act = "raise" THEN "raise" ELSE "ok",
                     <<>>, FALSE)

\* a search whose _load persists the empty pair it makes for a missing index
search_creating(o, q, k) ==
    LET r == SearchOut(Load(idxFile[o], mapFile[o]), q, k)
    IN /\ IF idxFile[o].exists /\ mapFile[o].exists THEN UNCHANGED fsVars
          ELSE /\ idxFile' = [idxFile EXCEPT ![o] = File(<<>>)]
               /\ mapFile' = [mapFile EXCEPT ![o] = File(<<>>)]
       /\ UNCHANGED <<added, stepVars, dbVars>>
       /\ ret' = Ret("search", o, r.status, r.ids, FALSE)

search(o, q, k) ==
    LET r == SearchOut(Load(idxFile[o], mapFile[o]), q, k)
    IN /\ UNCHANGED <<fsVars, added, stepVars, dbVars>>
       /\ ret' = Ret("search", o, r.status, r.ids, FALSE)

\* a remove_chunks that deletes both files when no row is left
remove_chunks_unlink(o, chunk_ids) ==
    LET r == RemoveOut(Load(idxFile[o], mapFile[o]), chunk_ids)
    IN /\ IF r.act = "save"
          THEN /\ idxFile' = [idxFile EXCEPT ![o] =
                                 IF r.rows = <<>> THEN NoFile ELSE File(r.rows)]
               /\ mapFile' = [mapFile EXCEPT ![o] =
                                 IF r.rows = <<>> THEN NoFile ELSE File(r.mapping)]
          ELSE UNCHANGED fsVars
       /\ UNCHANGED <<added, stepVars, dbVars>>
       /\ ret' = Ret("remove_chunks", o, IF r.act = "raise" THEN "raise" ELSE "ok",
                     <<>>, FALSE)

remove_chunks(o, chunk_ids) ==
    LET r == RemoveOut(Load(idxFile[o], mapFile[o]), chunk_ids)
    IN /\ IF r.act = "save"
          THEN /\ idxFile' = [idxFile EXCEPT ![o] = File(r.rows)]
               /\ mapFile' = [mapFile EXCEPT ![o] = File(r.mapping)]
          ELSE UNCHANGED fsVars
       /\ UNCHANGED <<added, stepVars, dbVars>>
       /\ ret' = Ret("remove_chunks", o, IF r.act = "raise" THEN "raise" ELSE "ok",
                     <<>>, FALSE)

user_has_index(o) ==
    /\ UNCHANGED <<fsVars, added, stepVars, dbVars>>
    /\ ret' = Ret("user_has_index", o, "ok", <<>>, UserHasIndexOut(idxFile[o]))

\* the owner whose calls the one-owner specification follows
Caller == "U1"

Next ==
    \/ \E ids \in IdBatches :
          /\ Len(mapFile[Caller].data) + Len(ids) <= MaxRows
          /\ \E vecs \in VecBatches : add_batch(Caller, ids, vecs)
    \/ \E q \in Queries, k \in 1..MaxK : search(Caller, q, k)
    \/ \E S \in SUBSET Ids : remove_chunks(Caller, S)
    \/ user_has_index(Caller)

Spec == Init /\ [][Next]_vars

\* ----------------------------------- the service, calls for every owner
\* well-formed single-id batches and the queries of two directions
OwnerBatches == { [ids |-> <<"c1">>, vecs |-> << <<1, 0>> >>],
                  [ids |-> <<"c2">>, vecs |-> << <<0, 1>> >>] }
OwnerRemovals == { {"c1"}, {"c1", "c2"} }
OwnerQueries == { <<1, 0>>, <<1, 1>> }

NextOwners ==
    \E o \in Owners :
        \/ \E b \in OwnerBatches : add_batch(o, b.ids, b.vecs)
        \/ \E S \in OwnerRemovals : remove_chunks(o, S)
        \/ \E q \in OwnerQueries : search(o, q, MaxK)
        \/ user_has_index(o)

SpecOwners == Init /\ [][NextOwners]_vars

\* --------------------- the service, calls taken one file access at a time
\* Each call is the sequence of file accesses the code makes: _load checks
\* that both files exist and reads the index, then reads the mapping; _save
\* writes the index file, then the mapping file.  Nothing in the code keeps
\* two requests for one owner apart.

\* well-formed batches: as many ids as vectors, all of the index's dimension
Batches == { [ids |-> <<"c1">>, vecs |-> << <<1, 0>> >>],
             [ids |-> <<"c2">>, vecs |-> << <<0, 1>> >>],
             [ids |-> <<"c3">>, vecs |-> << <<2, 0>> >>] }
Removals == { {"c1"}, {"c1", "c2"} }

Busy(p) == proc[p].pc \notin {"idle", "done"}

\* a request enters add_batch (line 82 passed: both arguments are non-empty)
call_add_batch(p, b) ==
    /\ ~Busy(p)
    /\ nsaves < MaxSaves
    /\ proc' = [proc EXCEPT ![p] = [Fresh EXCEPT !.op = "add_batch",
                   !.ids = b.ids, !.vecs = b.vecs,
                   !.snapIdx = idxFile[Caller], !.snapMap = mapFile[Caller]]]
    /\ UNCHANGED <<fsVars, ret, added, verVars, dbVars>>

call_remove_chunks(p, S) ==
    /\ ~Busy(p)
    /\ nsaves < MaxSaves
    /\ proc' = [proc EXCEPT ![p] = [Fresh EXCEPT !.op = "remove_chunks",
                   !.S = S,
                   !.snapIdx = idxFile[Caller], !.snapMap = mapFile[Caller]]]
    /\ UNCHANGED <<fsVars, ret, added, verVars, dbVars>>

call_search(p, q, k) ==
    /\ ~Busy(p)
    /\ proc' = [proc EXCEPT ![p] = [Fresh EXCEPT !.op = "search",
                   !.q = q, !.k = k,
                   !.snapIdx = idxFile[Caller], !.snapMap = mapFile[Caller]]]
    /\ UNCHANGED <<fsVars, ret, added, verVars, dbVars>>

\* _load, lines 47-48: the existence test and faiss.read_index
load_index(p) ==
    /\ proc[p].pc = "load_idx"
    /\ LET both == idxFile[Caller].exists /\ mapFile[Caller].exists
       IN proc' = [proc EXCEPT ![p].pc = "load_map", ![p].both = both,
                      ![p].rows = IF both THEN idxFile[Caller].data ELSE <<>>,
                      ![p].iver = IF both THEN idxVer[Caller] ELSE 0]
    /\ UNCHANGED <<fsVars, ret, added, verVars, dbVars>>

\* what the call does with the pair it loaded, up to its first write
AfterLoad(pr, ld) ==
    IF pr.op = "search"
    THEN LET r == SearchOut(ld, pr.q, pr.k)
         IN [pr EXCEPT !.pc = "done", !.status = r.status, !.out = r.ids]
    ELSE LET r == IF pr.op = "add_batch" THEN AddOut(ld, pr.ids, pr.vecs)
                  ELSE RemoveOut(ld, pr.S)
         IN IF r.act = "save"
            THEN [pr EXCEPT !.pc = "write_idx", !.nrows = r.rows, !.nmap = r.mapping]
            ELSE [pr EXCEPT !.pc = "done",
                            !.status = IF r.act = "raise" THEN "raise" ELSE "ok"]

\* _load, line 49: the mapping is read; then the call's in-memory work
load_mapping(p) ==
    /\ proc[p].pc = "load_map"
    /\ LET mapping == IF proc[p].both THEN mapFile[Caller].data ELSE <<>>
           pr == [proc[p] EXCEPT !.mapping = mapping,
                                 !.mver = IF proc[p].both THEN mapVer[Caller] ELSE 0]
       IN proc' = [proc EXCEPT ![p] = AfterLoad(pr, [rows |-> pr.rows, mapping |-> mapping])]
    /\ UNCHANGED <<fsVars, ret, added, verVars, dbVars>>

\* _save, line 58: faiss.write_index
write_index(p) ==
    /\ proc[p].pc = "write_idx"
    /\ idxFile' = [idxFile EXCEPT ![Caller] = File(proc[p].nrows)]
    /\ nsaves' = nsaves + 1
    /\ idxVer' = [idxVer EXCEPT ![Caller] = nsaves + 1]
    /\ proc' = [proc EXCEPT ![p].pc = "write_map", ![p].myver = nsaves + 1]
    /\ UNCHANGED <<mapFile, mapVer, ret, added, dbVars>>

\* _save, line 59: write_text of the mapping; the call returns
write_mapping(p) ==
    /\ proc[p].pc = "write_map"
    /\ mapFile' = [mapFile EXCEPT ![Caller] = File(proc[p].nmap)]
    /\ mapVer' = [mapVer EXCEPT ![Caller] = proc[p].myver]
    /\ proc' = [proc EXCEPT ![p].pc = "done", ![p].status = "ok"]
    /\ added' = IF proc[p].op = "add_batch"
                THEN [added EXCEPT ![Caller] = @ \cup Range(proc[p].ids)]
                ELSE added
    /\ UNCHANGED <<idxFile, idxVer, nsaves, ret, dbVars>>

\* faiss.write_index raises (the file could not be opened): nothing written
fail_write_index(p) ==
    /\ proc[p].pc = "write_idx"
    /\ proc' = [proc EXCEPT ![p].pc = "done", ![p].status = "raise", ![p].failed = TRUE]
    /\ UNCHANGED <<fsVars, ret, added, verVars, dbVars>>

\* write_text raises after the index file has been written
fail_write_mapping(p) ==
    /\ proc[p].pc = "write_map"
    /\ proc' = [proc EXCEPT ![p].pc = "done", ![p].status = "raise", ![p].failed = TRUE]
    /\ UNCHANGED <<fsVars, ret, added, verVars, dbVars>>

StepsOf(p) ==
    \/ \E b \in Batches : call_add_batch(p, b)
    \/ \E S \in Removals : call_remove_chunks(p, S)
    \/ \E q \in {<<1, 0>>, <<1, 1>>} : call_search(p, q, MaxK)
    \/ load_index(p)
    \/ load_mapping(p)
    \/ write_index(p)
    \/ write_mapping(p)

\* two requests for one owner, no I/O failure
NextConc == \E p \in Procs : StepsOf(p)

SpecConc == Init /\ [][NextConc]_vars

\* one request at a time, whose writes may fail
NextIO ==
    \/ StepsOf("p1")
    \/ fail_write_index("p1")
    \/ fail_write_mapping("p1")

SpecIO == Init /\ [][NextIO]_vars

\* ------------------------------------------------- the library router
\* One request at a time for the owner Caller.  The collaborators decide
\* what the request meets: generate_embedding returns a vector or nothing
\* (<<>>), and a write of _save may fail ("write_index": faiss.write_index
\* raises, "write_mapping": write_text raises after the index was written).

Embeddings == {<<1, 0>>, <<0, 1>>}
EmbeddingOutcomes == Embeddings \cup {<<>>}
Faults == {"none", "write_index", "write_mapping"}

\* what a request can meet once its vectors are stored: a fault of _save, or
\* a db.commit() that raises
RequestFaults == Faults \cup {"commit"}
StoreFault(fault) == IF fault = "commit" THEN "none" ELSE fault

\* the outcomes of generate_embedding for the chunks of one text; no chunk
\* stands for a text that is empty or could not be extracted
ChunkOutcomes == SeqsUpTo(EmbeddingOutcomes, MaxChunks)

\* _save under a fault: the files afterwards and whether it raised
SaveUnder(fault, idx, map, rows, mapping) ==
    [idx |-> IF fault = "write_index" THEN idx ELSE File(rows),
     map |-> IF fault = "none" THEN File(mapping) ELSE map,
     raised |-> fault # "none"]

\* add_batch / remove_chunks as one call under a fault, from the files
\* (idx, map): the files afterwards and whether the call raised
CallUnder(fault, idx, map, r) ==
    IF r.act = "save" THEN SaveUnder(fault, idx, map, r.rows, r.mapping)
    ELSE [idx |-> idx, map |-> map, raised |-> r.act = "raise"]

AddUnder(fault, idx, map, chunk_ids, embeddings) ==
    CallUnder(fault, idx, map, AddOut(Load(idx, map), chunk_ids, embeddings))

\* a remove_chunks that returns without touching the files
RemoveUnderSkipped(fault, idx, map, chunk_ids) ==
    [idx |-> idx, map |-> map, raised |-> FALSE]

RemoveUnder(fault, idx, map, chunk_ids) ==
    CallUnder(fault, idx, map, RemoveOut(Load(idx, map), chunk_ids))

\* the DocChunk rows the ingestion loop creates: one per chunk, ids in order
NewChunks(d, n) ==
    {[id |-> UuidSeq[nextUuid + i], doc |-> d, order |-> i - 1] : i \in 1..n}

\* the ids and vectors of the chunks whose embedding came back
RECURSIVE Embedded(_, _)
Embedded(outcomes, i) ==
    IF i > Len(outcomes) THEN [ids |-> <<>>, vecs |-> <<>>]
    ELSE LET rest == Embedded(outcomes, i + 1)
         IN IF outcomes[i] # <<>>
            THEN [ids |-> <<UuidSeq[nextUuid + i]>> \o rest.ids,
                  vecs |-> <<outcomes[i]>> \o rest.vecs]
            ELSE rest

ChunksOf(d) == {c \in chunks : c.doc = d}
IdsOf(d) == {c.id : c \in ChunksOf(d)}

Req(op, d, status) == [op |-> op, doc |-> d, status |-> status]

\* POST /upload: the item is committed, then the chunks are created and
\* embedded; whatever the try block raises is swallowed and the session is
\* committed; when that last commit raises, get_db rolls back what the first
\* commit did not cover
upload_document(d, outcomes, fault) ==
    /\ ~items[d].exists
    /\ nextUuid + Len(outcomes) <= Len(UuidSeq)
    /\ LET e == Embedded(outcomes, 1)
           a == IF e.ids # <<>>
                THEN AddUnder(StoreFault(fault), idxFile[OwnerOf(d)], mapFile[OwnerOf(d)],
                              e.ids, e.vecs)
                ELSE [idx |-> idxFile[OwnerOf(d)], map |-> mapFile[OwnerOf(d)], raised |-> FALSE]
           committed == fault # "commit"
       IN /\ idxFile' = [idxFile EXCEPT ![OwnerOf(d)] = a.idx]
          /\ mapFile' = [mapFile EXCEPT ![OwnerOf(d)] = a.map]
          /\ items' = [items EXCEPT ![d] =
                [exists |-> TRUE,
                 processed |-> committed /\ outcomes # <<>> /\ ~a.raised]]
          /\ chunks' = IF committed THEN chunks \cup NewChunks(d, Len(outcomes))
                       ELSE chunks
          /\ added' = IF e.ids # <<>> /\ ~a.raised
                      THEN [added EXCEPT ![OwnerOf(d)] = @ \cup Range(e.ids)] ELSE added
          /\ lastReq' = Req("upload_document", d, IF committed THEN 201 ELSE 500)
    /\ nextUuid' = nextUuid + Len(outcomes)
    /\ vault' = NoVault
    /\ UNCHANGED <<ret, stepVars, gone, pureVars>>

\* PATCH /{item_id} with extracted_text: the old vectors are removed, the old
\* rows deleted, the new text chunked, embedded and indexed, then committed;
\* an exception leaves the handler and get_db rolls the session back
update_library_item(d, outcomes, rfault, afault) ==
    /\ items[d].exists
    /\ nextUuid + Len(outcomes) <= Len(UuidSeq)
    /\ LET r == IF IdsOf(d) # {}
                THEN RemoveUnder(rfault, idxFile[OwnerOf(d)], mapFile[OwnerOf(d)], IdsOf(d))
                ELSE [idx |-> idxFile[OwnerOf(d)], map |-> mapFile[OwnerOf(d)], raised |-> FALSE]
           e == Embedded(outcomes, 1)
           a == IF ~r.raised /\ e.ids # <<>>
                THEN AddUnder(StoreFault(afault), r.idx, r.map, e.ids, e.vecs)
                ELSE [idx |-> r.idx, map |-> r.map, raised |-> FALSE]
           ok == ~r.raised /\ ~a.raised /\ afault # "commit"
       IN /\ idxFile' = [idxFile EXCEPT ![OwnerOf(d)] = a.idx]
          /\ mapFile' = [mapFile EXCEPT ![OwnerOf(d)] = a.map]
          /\ items' = IF ok THEN [items EXCEPT ![d].processed = outcomes # <<>>]
                      ELSE items
          /\ chunks' = IF ok THEN (chunks \ ChunksOf(d)) \cup NewChunks(d, Len(outcomes))
                       ELSE chunks
          /\ added' = IF ~r.raised /\ ~a.raised /\ e.ids # <<>>
                      THEN [added EXCEPT ![OwnerOf(d)] = @ \cup Range(e.ids)] ELSE added
          /\ nextUuid' = IF r.raised THEN nextUuid ELSE nextUuid + Len(outcomes)
          /\ lastReq' = Req("update_library_item", d, IF ok THEN 200 ELSE 500)
    /\ vault' = NoVault
    /\ UNCHANGED <<ret, stepVars, gone, pureVars>>

\* a delete that answers 204 without committing the deletion of the item and
\* its chunks
delete_library_item_uncommitted(d, rfault, storageFails) ==
    /\ items[d].exists
    /\ LET r == IF IdsOf(d) # {}
                THEN RemoveUnder(rfault, idxFile[OwnerOf(d)], mapFile[OwnerOf(d)], IdsOf(d))
                ELSE [idx |-> idxFile[OwnerOf(d)], map |-> mapFile[OwnerOf(d)], raised |-> FALSE]
           ok == ~r.raised /\ ~storageFails
       IN /\ idxFile' = [idxFile EXCEPT ![OwnerOf(d)] = r.idx]
          /\ mapFile' = [mapFile EXCEPT ![OwnerOf(d)] = r.map]
          /\ gone' = IF ok THEN gone \cup IdsOf(d) ELSE gone
          /\ lastReq' = Req("delete_library_item", d, IF ok THEN 204 ELSE 500)
    /\ vault' = NoVault
    /\ UNCHANGED <<ret, added, stepVars, nextUuid, items, chunks, pureVars>>

\* DELETE /{item_id}: the vectors are removed, the stored file deleted, the
\* item deleted with its chunks (cascade) and the session committed;
\* storageFails is a failure met after the vectors are removed, of the blob
\* store or of the commit
delete_library_item(d, rfault, storageFails) ==
    /\ items[d].exists
    /\ LET r == IF IdsOf(d) # {}
                THEN RemoveUnder(rfault, idxFile[OwnerOf(d)], mapFile[OwnerOf(d)], IdsOf(d))
                ELSE [idx |-> idxFile[OwnerOf(d)], map |-> mapFile[OwnerOf(d)], raised |-> FALSE]
           ok == ~r.raised /\ ~storageFails
       IN /\ idxFile' = [idxFile EXCEPT ![OwnerOf(d)] = r.idx]
          /\ mapFile' = [mapFile EXCEPT ![OwnerOf(d)] = r.map]
          /\ items' = IF ok THEN [items EXCEPT ![d] = NoItem] ELSE items
          /\ chunks' = IF ok THEN chunks \ ChunksOf(d) ELSE chunks
          /\ gone' = IF ok THEN gone \cup IdsOf(d) ELSE gone
          /\ lastReq' = Req("delete_library_item", d, IF ok THEN 204 ELSE 500)
    /\ vault' = NoVault
    /\ UNCHANGED <<ret, added, stepVars, nextUuid, pureVars>>

NextIngest ==
    \/ \E d \in Docs, outcomes \in ChunkOutcomes, fault \in RequestFaults :
          upload_document(d, outcomes, fault)
    \/ \E d \in Docs, outcomes \in ChunkOutcomes, rfault \in Faults,
          afault \in RequestFaults :
          \* a request meets one failure: what follows a failed removal is
          \* never reached
          /\ rfault # "none" => afault = "none"
          /\ update_library_item(d, outcomes, rfault, afault)
    \/ \E d \in Docs, rfault \in Faults, storageFails \in BOOLEAN :
          delete_library_item(d, rfault, storageFails)

SpecIngest == Init /\ [][NextIngest]_vars

\* ------------------------------------------------------- the embeddings
\* What one provider attempt meets: the provider is not configured (no API
\* key, no client), the call raises, the response lacks the embedding
\* (result["embedding"] / resp.data[0] raises inside the try block), or the
\* response carries the vector vec.
AttemptKinds == {"unconfigured", "raises", "malformed", "ok"}
Failed(kind) == [kind |-> kind, vec |-> <<>>]
Gave(v) == [kind |-> "ok", vec |-> v]
QueryVectors == {<<1, 0>>, <<0, 1>>}
Attempts == {Failed(k) : k \in AttemptKinds \ {"ok"}} \cup {Gave(v) : v \in QueryVectors}

\* the texts a caller passes: one that is empty once stripped, one that is not
Texts == {"", "q"}

\* what a function hands its caller: a value (<<>> for None) or an exception
Return(v) == [raised |-> FALSE, value |-> v]
Raise == [raised |-> TRUE, value |-> <<>>]

\* a generate_embedding whose OpenAI call is not inside a try block
GenerateEmbeddingUnguarded(text, gemini, openai) ==
    IF text = "" THEN Return(<<>>)
    ELSE IF gemini.kind = "ok" THEN Return(gemini.vec)
    ELSE IF openai.kind = "ok" THEN Return(openai.vec)
    ELSE IF openai.kind \in {"raises", "malformed"} THEN Raise
    ELSE Return(<<>>)

\* generate_embedding: Gemini, then OpenAI, each inside try / except
\* Exception: pass; None when the text is empty or neither returned
GenerateEmbedding(text, gemini, openai) ==
    IF text = "" THEN Return(<<>>)
    ELSE IF gemini.kind = "ok" THEN Return(gemini.vec)
    ELSE IF openai.kind = "ok" THEN Return(openai.vec)
    ELSE Return(<<>>)

\* generate_query_embedding: Gemini with task_type retrieval_query, then
\* whatever generate_embedding gives for the query
GenerateQueryEmbedding(query, geminiQuery, gemini, openai) ==
    IF query = "" THEN Return(<<>>)
    ELSE IF geminiQuery.kind = "ok" THEN Return(geminiQuery.vec)
    ELSE GenerateEmbedding(query, gemini, openai)

\* one run of the providers behind a query: the text and what each attempt
\* meets.  Both Gemini attempts read the one GOOGLE_GEMINI_API_KEY, so the
\* second is unconfigured exactly when the first is; attempts the code does
\* not reach are left unconfigured.
Run(text, gq, gd, oa) == [text |-> text, gq |-> gq, gd |-> gd, oa |-> oa]
Reached(r) ==
    /\ (r.text = "" \/ r.gq.kind = "ok") =>
           (r.gd = Failed("unconfigured") /\ r.oa = Failed("unconfigured"))
    /\ r.text = "" => r.gq = Failed("unconfigured")
    /\ (r.text # "" /\ r.gq.kind # "ok") =>
           (r.gq.kind = "unconfigured" <=> r.gd.kind = "unconfigured")
    /\ r.gd.kind = "ok" => (r.oa = Failed("unconfigured") /\ r.gd.vec = <<1, 0>>)
    /\ r.oa.kind = "ok" => r.oa.vec = <<0, 1>>
EmbedRuns ==
    {r \in {Run(t, gq, gd, oa) : t \in Texts, gq \in Attempts, gd \in Attempts,
                                 oa \in Attempts} : Reached(r)}
AllFailed(r) ==
    r.text = "" \/ (r.gq.kind # "ok" /\ r.gd.kind # "ok" /\ r.oa.kind # "ok")

\* the provider calls a function makes, in order: the provider and the
\* task_type it is given (OpenAI takes none)
Attempt(provider, task_type) == [provider |-> provider, task_type |-> task_type]

\* generate_embedding: a provider that is not configured is skipped, OpenAI
\* is called only when Gemini did not return
EmbeddingTrace(text, gemini, openai) ==
    IF text = "" THEN <<>>
    ELSE (IF gemini.kind # "unconfigured"
          THEN <<Attempt("gemini", "retrieval_document")>> ELSE <<>>)
         \o (IF gemini.kind # "ok" /\ openai.kind # "unconfigured"
             THEN <<Attempt("openai", "none")>> ELSE <<>>)

\* generate_query_embedding: its own Gemini call, then the calls of
\* generate_embedding when that did not return
QueryEmbeddingTrace(query, geminiQuery, gemini, openai) ==
    IF query = "" THEN <<>>
    ELSE (IF geminiQuery.kind # "unconfigured"
          THEN <<Attempt("gemini", "retrieval_query")>> ELSE <<>>)
         \o (IF geminiQuery.kind # "ok"
             THEN EmbeddingTrace(query, gemini, openai) ELSE <<>>)

\* the calls followed: the function, its text and what each provider call
\* would meet; both Gemini calls read the one GOOGLE_GEMINI_API_KEY
EmbedCalls ==
    {[fn |-> "generate_embedding", text |-> t, gq |-> Failed("unconfigured"),
      gd |-> gd, oa |-> oa, done |-> FALSE, trace |-> <<>>, value |-> <<>>] :
        t \in Texts, gd \in Attempts, oa \in Attempts}
    \cup
    {c \in {[fn |-> "generate_query_embedding", text |-> t, gq |-> gq, gd |-> gd,
             oa |-> oa, done |-> FALSE, trace |-> <<>>, value |-> <<>>] :
               t \in Texts, gq \in Attempts, gd \in Attempts, oa \in Attempts} :
        c.gq.kind = "unconfigured" <=> c.gd.kind = "unconfigured"}

InitEmbed ==
    /\ InitStore
    /\ chunkCall = NoChunkCall
    /\ embedCall \in EmbedCalls

generate_embedding ==
    /\ embedCall.fn = "generate_embedding"
    /\ ~embedCall.done
    /\ embedCall' = [embedCall EXCEPT
          !.done = TRUE,
          !.trace = EmbeddingTrace(embedCall.text, embedCall.gd, embedCall.oa),
          !.value = GenerateEmbedding(embedCall.text, embedCall.gd, embedCall.oa).value]
    /\ UNCHANGED <<fsVars, ret, added, stepVars, items, chunks, nextUuid, lastReq,
                   vault, gone, chunkCall>>

generate_query_embedding ==
    /\ embedCall.fn = "generate_query_embedding"
    /\ ~embedCall.done
    /\ embedCall' = [embedCall EXCEPT
          !.done = TRUE,
          !.trace = QueryEmbeddingTrace(embedCall.text, embedCall.gq, embedCall.gd,
                                        embedCall.oa),
          !.value = GenerateQueryEmbedding(embedCall.text, embedCall.gq, embedCall.gd,
                                           embedCall.oa).value]
    /\ UNCHANGED <<fsVars, ret, added, stepVars, items, chunks, nextUuid, lastReq,
                   vault, gone, chunkCall>>

NextEmbed ==
    \/ generate_embedding
    \/ generate_query_embedding

SpecEmbed == InitEmbed /\ [][NextEmbed]_vars

\* -------------------------------------------------------- the vault query
VAULT_K == 15        \* k of the search call
FALLBACK_LIMIT == 2  \* 20 in the code: the LIMIT of the fallback query

\* payload.file_ids: none given, one document, two documents of two owners
FileFilters == { {}, {"d1"}, {"d2", "d3"} }

\* the orders in which the record store may return the rows of a set
Orders(S) ==
    IF S = {} THEN {<<>>}
    ELSE {s \in [1..Cardinality(S) -> S] :
             \A i, j \in 1..Cardinality(S) : i # j => s[i] # s[j]}

\* the hydration query: DocChunk joined to UserLibraryItem, id among the
\* ranked ids, item of the user, item among file_ids when given
VectorRows(o, ranked, file_ids) ==
    {c \in chunks : /\ c.id \in Range(ranked)
                    /\ items[c.doc].exists /\ OwnerOf(c.doc) = o
                    /\ (file_ids # {} => c.doc \in file_ids)}

\* a hydration that keeps the rows in the order the store returned them
HydrateStoreOrder(ranked, rows) == rows

\* db_chunks_by_id, then one chunk per ranked id that the query returned
RECURSIVE Hydrate(_, _)
Hydrate(ranked, rows) ==
    IF ranked = <<>> THEN <<>>
    ELSE LET db_chunks_by_id == {c \in Range(rows) : c.id = Head(ranked)}
         IN (IF db_chunks_by_id = {} THEN <<>> ELSE <<CHOOSE c \in db_chunks_by_id : TRUE>>)
            \o Hydrate(Tail(ranked), rows)

\* a fallback query that does not filter on the user
FallbackRowsAnyOwner(o, file_ids) ==
    {c \in chunks : /\ items[c.doc].exists
                    /\ (file_ids # {} => c.doc \in file_ids)}

\* the rows the fallback query selects from: item of the user, item among
\* file_ids when given
FallbackRows(o, file_ids) ==
    {c \in chunks : /\ items[c.doc].exists /\ OwnerOf(c.doc) = o
                    /\ (file_ids # {} => c.doc \in file_ids)}

\* ORDER BY chunk_order LIMIT: the results the record store may return; rows
\* of equal chunk_order come in any order, and any of them may fall to the limit
FallbackResults(o, file_ids) ==
    LET all == FallbackRows(o, file_ids)
        n == Min(FALLBACK_LIMIT, Cardinality(all))
    IN IF n = 0 THEN {<<>>}
       ELSE {s \in [1..n -> all] :
                /\ \A i, j \in 1..n : i # j => s[i] # s[j]
                /\ \A i \in 1..(n - 1) : s[i].order <= s[i + 1].order
                /\ \A c \in all \ Range(s) : s[n].order <= c.order}

\* chunk_text, character by character: the text of c2 is one character
\* long, every other text two
ChunkText(c) ==
    [k \in 1..(IF c.id = "c2" THEN 1 ELSE 2) |-> [of |-> c.id, at |-> k]]
Newline == [of |-> "newline", at |-> 0]

\* "\n\n".join(c.chunk_text for c in chunks)
RECURSIVE ContextText(_)
ContextText(context) ==
    IF context = <<>> THEN <<>>
    ELSE IF Len(context) = 1 THEN ChunkText(context[1])
    ELSE ChunkText(context[1]) \o <<Newline, Newline>> \o ContextText(Tail(context))

CONTEXT_CHARS == 4   \* 8000 in the code: the characters of context in the prompt

\* a prompt that keeps the last characters of the context
AskDocumentContextTail(context_text) ==
    SubSeq(context_text, Len(context_text) - Min(CONTEXT_CHARS, Len(context_text)) + 1,
           Len(context_text))

\* ask_document: context[:8000] is what the prompt carries
AskDocumentContext(context_text) ==
    SubSeq(context_text, 1, Min(CONTEXT_CHARS, Len(context_text)))

\* the response to a request that ended in an exception
VaultError(o) == [NoVault EXCEPT !.op = "query_vault", !.owner = o, !.outcome = "error"]

\* a response that calls ask_document whatever retrieval found
VaultAnswerAlways(v, path, context) ==
    [v EXCEPT !.path = IF context = <<>> THEN "none" ELSE path,
              !.context = context,
              !.outcome = "answer",
              !.asked = TRUE,
              !.prompt = AskDocumentContext(ContextText(context))]

\* the response once retrieval has ended with the chunks context
VaultAnswer(v, path, context) ==
    [v EXCEPT !.path = IF context = <<>> THEN "none" ELSE path,
              !.context = context,
              !.outcome = IF context = <<>> THEN "no_documents" ELSE "answer",
              !.asked = context # <<>>,
              !.prompt = IF context # <<>> THEN AskDocumentContext(ContextText(context))
                         ELSE <<>>]

\* POST /vault/query: points are deducted (paid: deduct did not raise), the
\* query is embedded, the index searched and the ranked ids hydrated; without
\* chunks the fallback query runs; without chunks still, the fixed answer is
\* returned, else ask_document is called with the chunks' text
query_vault(o, file_ids, run, paid) ==
    LET e == GenerateQueryEmbedding(run.text, run.gq, run.gd, run.oa)
        has == UserHasIndexOut(idxFile[o])
        s == IF ~e.raised /\ e.value # <<>> /\ has
             THEN SearchOut(Load(idxFile[o], mapFile[o]), e.value, VAULT_K)
             ELSE [status |-> "ok", ids |-> <<>>]
        v == [NoVault EXCEPT !.op = "query_vault", !.owner = o, !.file_ids = file_ids,
                             !.allFailed = AllFailed(run), !.embedding = e.value,
                             !.has_index = has, !.ranked = s.ids]
    IN /\ IF ~paid THEN vault' = VaultError(o)
          ELSE IF e.raised
               THEN vault' = [VaultError(o) EXCEPT !.raised = TRUE,
                                                   !.allFailed = AllFailed(run)]
          ELSE IF s.status = "raise" THEN vault' = VaultError(o)
          ELSE \E rows \in Orders(VectorRows(o, s.ids, file_ids)) :
                  LET hydrated == Hydrate(s.ids, rows)
                  IN IF hydrated # <<>>
                     THEN vault' = VaultAnswer([v EXCEPT !.rows = rows], "vector", hydrated)
                     ELSE \E found \in FallbackResults(o, file_ids) :
                             vault' = VaultAnswer(v, "fallback", found)
       /\ lastReq' = Req("query_vault", "d1", IF vault'.outcome = "error" THEN 500 ELSE 200)
       /\ UNCHANGED <<fsVars, ret, added, stepVars, items, chunks, nextUuid, gone,
                      pureVars>>

\* the texts uploaded: two chunks that both embed, one chunk that embeds,
\* one chunk whose embedding fails
VaultOutcomes == { << <<1, 0>>, <<0, 1>> >>, << <<0, 1>> >>, << <<>> >> }

\* documents of both owners are uploaded and deleted without I/O failure, and
\* Caller queries the vault
NextVault ==
    \/ \E d \in AllDocs, outcomes \in VaultOutcomes : upload_document(d, outcomes, "none")
    \/ \E d \in AllDocs : delete_library_item(d, "none", FALSE)
    \/ \E file_ids \in FileFilters, run \in EmbedRuns :
          query_vault(Caller, file_ids, run, TRUE)
    \/ query_vault(Caller, {}, Run("q", Gave(<<1, 0>>), Failed("unconfigured"),
                                   Failed("unconfigured")), FALSE)

SpecVault == Init /\ [][NextVault]_vars

\* ------------------------------------------------------------ the chunker
\* A text is its words, numbered 1..n in reading order, and what separates
\* each word from the next: whitespace, whitespace that follows a word ending
\* in . ! or ?, or a blank line (two newlines or more).
Gaps == {"space", "stop", "blank"}
TextsOf(n) == {[n |-> n, gap |-> g] : g \in [1..(IF n = 0 THEN 0 ELSE n - 1) -> Gaps]}
ChunkTexts == UNION {TextsOf(n) : n \in 0..MaxTextWords}
MaxWordsArgs == 1..MaxMaxWords
OverlapArgs == 0..(MaxMaxWords + 1)

WordsOf(text) == [i \in 1..text.n |-> i]

\* re.split at the gaps of the kinds in cuts: the runs of words between them
RECURSIVE SplitAt(_, _, _)
SplitAt(gap, words, cuts) ==
    IF words = <<>> THEN <<>>
    ELSE IF Len(words) = 1 THEN <<words>>
    ELSE LET rest == SplitAt(gap, Tail(words), cuts)
         IN IF gap[words[1]] \in cuts
            THEN <<(<<words[1]>>)>> \o rest
            ELSE <<(<<words[1]>> \o rest[1])>> \o Tail(rest)

\* paragraphs = re.split(r'\n{2,}', text); para.split() keeps their words
Paragraphs(text) == SplitAt(text.gap, WordsOf(text), {"blank"})

\* re.split(r'(?<=[.!?])\s+', para), each sentence then split into words
Sentences(text, para) == SplitAt(text.gap, para, {"stop"})

\* seq[-n:] as Python evaluates it: the last n elements, the whole list when
\* n is 0 (-0 is 0) or n is not less than its length
PySuffix(seq, n) ==
    IF n = 0 \/ n >= Len(seq) THEN seq
    ELSE SubSeq(seq, Len(seq) - n + 1, Len(seq))

ChunkerStart == [chunks |-> <<>>, current_words |-> <<>>]

\* a _flush that restarts the buffer without appending the chunk
FlushLosing(st, overlap_words) ==
    [chunks |-> st.chunks,
     current_words |-> IF Len(st.current_words) > overlap_words
                       THEN PySuffix(st.current_words, overlap_words)
                       ELSE st.current_words]

\* _flush: the buffer becomes a chunk and restarts with the overlap
Flush(st, overlap_words) ==
    [chunks |-> IF st.current_words # <<>> THEN Append(st.chunks, st.current_words)
                ELSE st.chunks,
     current_words |-> IF Len(st.current_words) > overlap_words
                       THEN PySuffix(st.current_words, overlap_words)
                       ELSE st.current_words]

\* one sentence or short paragraph: flush when it does not fit, then extend
\* (current_count is len(current_words) throughout)
Extend(st, piece, max_words, overlap_words) ==
    LET s == IF Len(st.current_words) + Len(piece) > max_words
             THEN Flush(st, overlap_words) ELSE st
    IN [s EXCEPT !.current_words = @ \o piece]

RECURSIVE ExtendAll(_, _, _, _)
ExtendAll(st, pieces, max_words, overlap_words) ==
    IF pieces = <<>> THEN st
    ELSE ExtendAll(Extend(st, pieces[1], max_words, overlap_words), Tail(pieces),
                   max_words, overlap_words)

\* the loop over the paragraphs: a paragraph longer than max_words goes in
\* sentence by sentence, any other in one piece
RECURSIVE ChunkParagraphs(_, _, _, _, _)
ChunkParagraphs(st, text, paras, max_words, overlap_words) ==
    IF paras = <<>> THEN st
    ELSE LET para == paras[1]
             s == IF Len(para) > max_words
                  THEN ExtendAll(st, Sentences(text, para), max_words, overlap_words)
                  ELSE Extend(st, para, max_words, overlap_words)
         IN ChunkParagraphs(s, text, Tail(paras), max_words, overlap_words)

\* semantic_chunk_text: the chunks, each the sequence of its words; a text
\* without words comes back as one chunk, the (empty) text itself
SemanticChunkText(text, max_words, overlap_words) ==
    LET st == ChunkParagraphs(ChunkerStart, text, Paragraphs(text), max_words,
                              overlap_words)
        out == IF st.current_words # <<>> THEN Append(st.chunks, st.current_words)
               ELSE st.chunks
    IN IF out # <<>> THEN out ELSE <<(<<>>)>>

InitChunk ==
    /\ InitStore
    /\ embedCall = NoEmbedCall
    /\ \E text \in ChunkTexts, max_words \in MaxWordsArgs, overlap_words \in OverlapArgs :
          chunkCall = [text |-> text, max_words |-> max_words,
                       overlap_words |-> overlap_words, done |-> FALSE, chunks |-> <<>>]

semantic_chunk_text ==
    /\ ~chunkCall.done
    /\ chunkCall' = [chunkCall EXCEPT
          !.done = TRUE,
          !.chunks = SemanticChunkText(chunkCall.text, chunkCall.max_words,
                                       chunkCall.overlap_words)]
    /\ UNCHANGED <<fsVars, ret, added, stepVars, items, chunks, nextUuid, lastReq,
                   vault, gone, embedCall>>

NextChunk == semantic_chunk_text

SpecChunk == InitChunk /\ [][NextChunk]_vars

\* =================================================================== claims
Loaded(o) == Load(idxFile[o], mapFile[o])
LoadedNext(o) == Load(idxFile'[o], mapFile'[o])

\* C1: after any sequence of add_batch and remove_chunks calls the persisted
\* mapping has exactly as many entries as the persisted index has rows.
C1_MappingMatchesRows ==
    \A o \in Owners : Len(mapFile[o].data) = Len(idxFile[o].data)

\* C5: add_batch with chunk_ids and vectors of different lengths raises and
\* leaves the persisted index and mapping unchanged.
C5_MismatchRejected ==
    [][\A ids \in IdBatches, vecs \in VecBatches :
          (Len(ids) # Len(vecs) /\ add_batch(Caller, ids, vecs))
              => (ret'.status = "raise" /\ UNCHANGED fsVars)]_vars

\* C2: when two add_batch calls for one owner run concurrently and both
\* complete (theirs being the only two _save calls so far), the mapping and
\* the index hold the ids and rows of both batches.
C2_NoLostUpdate ==
    ( /\ \A p \in Procs : /\ proc[p].pc = "done" /\ proc[p].op = "add_batch"
                          /\ proc[p].status = "ok"
      /\ nsaves = 2 )
    => \A p \in Procs :
          /\ Range(proc[p].ids) \subseteq Range(mapFile[Caller].data)
          /\ Range(Normalize(ToNp(proc[p].vecs))) \subseteq Range(idxFile[Caller].data)

\* C3: a search never loads an index body and a mapping written by different
\* _save calls.
C3_SearchLoadsOnePair ==
    \A p \in Procs :
        (proc[p].pc = "done" /\ proc[p].op = "search") => proc[p].iver = proc[p].mver

\* C4: when a write of _save fails the call raises and the persisted pair is
\* the pair from before the call; a call that reports success has persisted
\* the whole new pair.
C4_SaveAllOrNothing ==
    \A p \in Procs : proc[p].pc = "done" =>
        /\ proc[p].failed =>
              /\ proc[p].status = "raise"
              /\ idxFile[Caller] = proc[p].snapIdx
              /\ mapFile[Caller] = proc[p].snapMap
        /\ (proc[p].status = "ok" /\ proc[p].myver # 0) =>
              /\ idxFile[Caller] = File(proc[p].nrows)
              /\ mapFile[Caller] = File(proc[p].nmap)

\* C6: once the ingestion of a document has finished (upload_document or the
\* re-chunk of update_library_item, however it ended), every chunk of that
\* document in the record store has its id in the owner's id mapping.
C6_StoredChunksAreIndexed ==
    lastReq.op \in {"upload_document", "update_library_item"}
        => IdsOf(lastReq.doc) \subseteq Range(Load(idxFile[Caller], mapFile[Caller]).mapping)

\* the row v becomes once add_batch or search has normalised it
Unit(v) == Normalize(ToNp(<<v>>))[1]

\* no stored row is as similar to v as v is to itself
NoRowLike(ld, v) ==
    \A i \in 1..Len(ld.rows) :
        ScoreGT(IP(Unit(v), Unit(v)), IP(ld.rows[i], Unit(v)))

\* C7 as stated: for any prior state, after add_batch(owner, [id1], [v1])
\* completes, search(owner, v1, k=1) returns exactly [id1].
C7_InsertThenFindAnyState ==
    [][\A id \in Ids, v \in Vectors :
          (ret'.op = "add_batch" /\ ret'.status = "ok" /\ add_batch(Caller, <<id>>, <<v>>))
              => SearchOut(LoadedNext(Caller), v, 1) = [status |-> "ok", ids |-> <<id>>]]_vars

\* C7 amended: when, before the call, the mapping has as many entries as the
\* index has rows and no stored row is as similar to v1 as v1 is to itself,
\* search(owner, v1, k=1) returns exactly [id1] after add_batch(owner, [id1], [v1]).
C7_InsertThenFind ==
    [][( /\ ret'.op = "add_batch" /\ ret'.status = "ok"
         /\ Len(Loaded(Caller).mapping) = Len(Loaded(Caller).rows)
         /\ Len(LoadedNext(Caller).mapping) = Len(Loaded(Caller).mapping) + 1 )
        => \A id \in Ids, v \in Vectors :
              (NoRowLike(Loaded(Caller), v) /\ add_batch(Caller, <<id>>, <<v>>))
                  => SearchOut(LoadedNext(Caller), v, 1) = [status |-> "ok", ids |-> <<id>>]]_vars

\* C7 witness: a single-id add_batch has completed on an index that already
\* held a row, and the new id is the last of a mapping as long as the index.
C7_Witness ==
    /\ ret.op = "add_batch" /\ ret.status = "ok"
    /\ Len(Loaded(Caller).rows) >= 2
    /\ Len(Loaded(Caller).mapping) = Len(Loaded(Caller).rows)
    /\ \A i \in 1..(Len(Loaded(Caller).rows) - 1) :
          Loaded(Caller).rows[i] # Loaded(Caller).rows[Len(Loaded(Caller).rows)]

\* ids comes from distinct rows of ld, best first
RankedFrom(ld, q, ids) ==
    \E pos \in [1..Len(ids) -> 1..Len(ld.rows)] :
        /\ \A a, b \in 1..Len(ids) : a # b => pos[a] # pos[b]
        /\ \A a \in 1..Len(ids) :
              pos[a] <= Len(ld.mapping) /\ ld.mapping[pos[a]] = ids[a]
        /\ \A a \in 1..(Len(ids) - 1) :
              ScoreGE(IP(ld.rows[pos[a]], Unit(q)), IP(ld.rows[pos[a + 1]], Unit(q)))

\* C8: for an owner whose index has N > 0 rows, search(owner, q, k) returns
\* exactly min(k, N) ids of the owner's mapping, by non-increasing similarity.
C8_SearchReturnsTopK ==
    [][\A q \in Queries, k \in 1..MaxK :
          ( /\ ret'.op = "search"
            /\ search(Caller, q, k)
            /\ Len(q) = EMBEDDING_DIM
            /\ Len(Loaded(Caller).rows) > 0 )
              => /\ ret'.status = "ok"
                 /\ Len(ret'.ids) = Min(k, Len(Loaded(Caller).rows))
                 /\ RankedFrom(Loaded(Caller), q, ret'.ids)]_vars

\* mapping entry i with the row stored at its position, if there is one
PairAt(ld, i) ==
    [id |-> ld.mapping[i], row |-> IF i <= Len(ld.rows) THEN <<ld.rows[i]>> ELSE <<>>]
Pairs(ld) == [i \in 1..Len(ld.mapping) |-> PairAt(ld, i)]

RECURSIVE Without(_, _)
Without(pairs, S) ==
    IF pairs = <<>> THEN <<>>
    ELSE (IF Head(pairs).id \in S THEN <<>> ELSE <<Head(pairs)>>) \o Without(Tail(pairs), S)

\* C9: after remove_chunks(owner, S) returns, the mapping is the previous
\* mapping without the ids of S, in the same order, each surviving id with
\* the row it had before.
C9_RemoveKeepsSurvivors ==
    [][\A S \in SUBSET Ids :
          (ret'.op = "remove_chunks" /\ ret'.status = "ok" /\ remove_chunks(Caller, S))
              => Pairs(LoadedNext(Caller)) = Without(Pairs(Loaded(Caller)), S)]_vars

\* C9 witness: a remove_chunks has returned, something was removed and two
\* different ids survive.
C9_Witness ==
    /\ ret.op = "remove_chunks" /\ ret.status = "ok"
    /\ Len(Loaded(Caller).mapping) = 2 /\ Len(Loaded(Caller).rows) = 2
    /\ Loaded(Caller).mapping[1] # Loaded(Caller).mapping[2]
    /\ Loaded(Caller).rows[1] # Loaded(Caller).rows[2]
    /\ added[Caller] \ Range(Loaded(Caller).mapping) # {}

\* every id ever added for o is gone from o's mapping
AllRemoved(o) == added[o] # {} /\ added[o] \cap Range(mapFile[o].data) = {}

\* C10: once every id ever added for an owner has been removed, search
\* returns [], user_has_index is still true, and add_batch finds the same
\* empty pair it finds for an owner that never had an index.
C10_EmptyNotAbsent ==
    \A o \in Owners : AllRemoved(o) =>
        /\ \A q \in Queries, k \in 1..MaxK :
              SearchOut(Loaded(o), q, k) = [status |-> "ok", ids |-> <<>>]
        /\ UserHasIndexOut(idxFile[o])
        /\ Loaded(o) = Load(NoFile, NoFile)
        /\ \A ids \in IdBatches, vecs \in VecBatches :
              AddOut(Loaded(o), ids, vecs) = AddOut(Load(NoFile, NoFile), ids, vecs)

\* C10 witness: remove_chunks has just removed the last of the added ids.
C10_Witness ==
    /\ ret.op = "remove_chunks" /\ ret.status = "ok"
    /\ AllRemoved(Caller)
    /\ Cardinality(added[Caller]) >= 2

\* C11: search and user_has_index never change persisted state: for an owner
\* with no index search returns [] without error, creates no index or mapping
\* file and leaves user_has_index false; for an owner with an index both files
\* are unchanged.  (A step is one of search exactly when it leaves "search" in
\* ret.op, and likewise for user_has_index.)
C11_ReadsChangeNothing ==
    [][ /\ ret'.op = "search"
           => /\ UNCHANGED fsVars
              /\ ~idxFile[Caller].exists =>
                    /\ ret'.status = "ok" /\ ret'.ids = <<>>
                    /\ ~mapFile'[Caller].exists
                    /\ ~UserHasIndexOut(idxFile'[Caller])
        /\ ret'.op = "user_has_index"
           => /\ UNCHANGED fsVars
              /\ ret'.flag = idxFile[Caller].exists ]_vars

\* C11 witness: search has returned [] for an owner that has no index, and no
\* file exists afterwards.
C11_Witness ==
    /\ ret.op = "search" /\ ret.status = "ok" /\ ret.ids = <<>>
    /\ ~idxFile[Caller].exists /\ ~mapFile[Caller].exists

\* C12: add_batch, remove_chunks and search for owner A leave owner B's index
\* and mapping unchanged, and search for A returns only ids added under A.
C12_OwnersIsolated ==
    [][ /\ \A b \in Owners : ret'.owner # b =>
              (idxFile'[b] = idxFile[b] /\ mapFile'[b] = mapFile[b])
        /\ ret'.op = "search" => Range(ret'.ids) \subseteq added[ret'.owner] ]_vars

\* C12 witness: a search for U2 has returned ids while U1 holds an index
\* with other ids.
C12_Witness ==
    /\ ret.op = "search" /\ ret.owner = "U2" /\ ret.ids # <<>>
    /\ Range(mapFile["U1"].data) # {}
    /\ Range(mapFile["U1"].data) # Range(mapFile["U2"].data)

\* C19: a remove_chunks(owner, S) that finds no id of S in the mapping it
\* loaded (an owner without index included) writes nothing: it starts no
\* _save, and both files are as they were when it was called.
C19_NoOpRemoveWritesNothing ==
    \A p \in Procs :
        ( /\ proc[p].pc = "done" /\ proc[p].op = "remove_chunks"
          /\ proc[p].S \cap Range(proc[p].mapping) = {} )
        => /\ proc[p].status = "ok"
           /\ proc[p].myver = 0
           /\ idxFile[Caller] = proc[p].snapIdx
           /\ mapFile[Caller] = proc[p].snapMap

\* C19 witness: a remove_chunks has returned on an index that holds ids, none
\* of them in S.
C19_Witness ==
    /\ proc["p1"].pc = "done" /\ proc["p1"].op = "remove_chunks"
    /\ proc["p1"].mapping # <<>>
    /\ proc["p1"].S \cap Range(proc["p1"].mapping) = {}

\* C20: an owner's index goes from absent to present only through an
\* add_batch with non-empty input (an add_batch that changes a file has
\* appended a non-empty list of ids; with an empty argument it is a no-op),
\* the row count grows only by add_batch (which appends) and shrinks only by
\* remove_chunks, and an index that is present stays present.
C20_Lifecycle ==
    [][ /\ (~idxFile[Caller].exists /\ idxFile'[Caller].exists) => ret'.op = "add_batch"
        /\ (ret'.op = "add_batch" /\ fsVars' # fsVars) =>
              /\ \A ids \in IdBatches : AddOut(Loaded(Caller), ids, <<>>).act = "noop"
              /\ \A vecs \in VecBatches : AddOut(Loaded(Caller), <<>>, vecs).act = "noop"
              /\ \E ids \in IdBatches \ {<<>>} :
                    mapFile'[Caller].data = Loaded(Caller).mapping \o ids
        /\ Len(idxFile'[Caller].data) > Len(idxFile[Caller].data) =>
              /\ ret'.op = "add_batch"
              /\ SubSeq(idxFile'[Caller].data, 1, Len(idxFile[Caller].data))
                     = idxFile[Caller].data
        /\ Len(idxFile'[Caller].data) < Len(idxFile[Caller].data) =>
              ret'.op = "remove_chunks"
        /\ idxFile[Caller].exists => idxFile'[Caller].exists ]_vars

\* C20 witness: remove_chunks has shrunk an index to one row after two ids
\* had been added.
C20_Witness ==
    /\ ret.op = "remove_chunks" /\ ret.status = "ok"
    /\ idxFile[Caller].exists /\ Len(idxFile[Caller].data) = 1
    /\ Cardinality(added[Caller]) >= 2

\* the ids of a sequence of chunk rows
ChunkIds(cs) == [i \in 1..Len(cs) |-> cs[i].id]

\* s can be obtained from t by leaving entries out
RECURSIVE IsSubseq(_, _)
IsSubseq(s, t) ==
    IF s = <<>> THEN TRUE
    ELSE IF t = <<>> THEN FALSE
    ELSE IF Head(s) = Head(t) THEN IsSubseq(Tail(s), Tail(t))
    ELSE IsSubseq(s, Tail(t))

\* C13: the chunks the vector path of query_vault returns are in the relative
\* order of their ids in the list search returned, whatever order the record
\* store returned the rows in, and every row the store returned is among them.
C13_HydrationKeepsRank ==
    vault.path = "vector" =>
        /\ IsSubseq(ChunkIds(vault.context), vault.ranked)
        /\ Range(vault.context) = Range(vault.rows)

\* C13 witness: the vector path returned two chunks that the record store
\* had returned in the other order.
C13_Witness ==
    /\ vault.path = "vector" /\ Len(vault.context) = 2
    /\ vault.rows # vault.context

\* C14: every chunk query_vault uses as context, from the vector path or the
\* fallback path, belongs to a document of the requesting owner and, when
\* file_ids is given, to one of those documents.
C14_ContextIsOwnersAndAllowed ==
    vault.op = "query_vault" =>
        \A i \in 1..Len(vault.context) :
            /\ OwnerOf(vault.context[i].doc) = vault.owner
            /\ (vault.file_ids # {} => vault.context[i].doc \in vault.file_ids)

\* C14 witness: the fallback path returned chunks for a query whose file_ids
\* names a document of the other owner, which has chunks in the record store.
C14_Witness ==
    /\ vault.path = "fallback" /\ vault.file_ids = {"d2", "d3"}
    /\ vault.context # <<>>
    /\ \E c \in chunks : c.doc = "d3"

\* the position of a chunk id in the order of ingestion
Seqno(id) == CHOOSE i \in 1..Len(UuidSeq) : UuidSeq[i] = id

\* the n most recently ingested rows of S, in the order of ingestion
RECURSIVE MostRecent(_, _)
MostRecent(S, n) ==
    IF n = 0 \/ S = {} THEN <<>>
    ELSE LET last == CHOOSE c \in S : \A x \in S : Seqno(x.id) <= Seqno(c.id)
         IN Append(MostRecent(S \ {last}, n - 1), last)

\* C15: when the vector path yields no chunk, query_vault returns the owner's
\* most recently ingested chunks, restricted to file_ids when given, at most
\* the fixed count of them, in the order of ingestion.
C15_FallbackIsMostRecent ==
    (vault.op = "query_vault" /\ vault.outcome # "error" /\ vault.path # "vector") =>
        vault.context = MostRecent(FallbackRows(vault.owner, vault.file_ids), FALLBACK_LIMIT)

C17_DeletedChunksNeverReturned ==
    vault.op = "query_vault" =>
        /\ Range(ChunkIds(vault.context)) \cap gone = {}
        /\ (gone # {} /\ \A c \in chunks : OwnerOf(c.doc) # vault.owner)
           => vault.outcome \in {"no_documents", "error"}

\* C17 witness: the only chunk ever ingested was the owner's, its document
\* has been deleted, and a query that reached the (now empty) index got the
\* no-documents answer.
C17_Witness ==
    /\ vault.outcome = "no_documents" /\ vault.has_index /\ vault.embedding # <<>>
    /\ nextUuid = 1 /\ gone = {UuidSeq[1]}

\* C18: generate_query_embedding (and generate_embedding, which it calls) never
\* raises; when the text is empty or every provider attempt fails it returns
\* None, and query_vault then answers from the fallback path, not with an error.
C18_EmbeddingFailureFallsBack ==
    vault.op = "query_vault" =>
        /\ ~vault.raised
        /\ vault.allFailed =>
              /\ vault.embedding = <<>>
              /\ vault.outcome # "error"
              /\ vault.ranked = <<>> /\ vault.path # "vector"
              /\ vault.context \in FallbackResults(vault.owner, vault.file_ids)

\* C18 witness: every provider attempt failed for an owner that has an index,
\* and the fallback path supplied the context.
C18_Witness ==
    /\ vault.allFailed /\ vault.has_index
    /\ vault.path = "fallback" /\ vault.asked

\* C29: after any sequence of upload_document, update_library_item and
\* delete_library_item requests, failed ones included, every id in the
\* owner's id mapping is the id of a chunk row committed in the record store
\* that belongs to a document of that owner.
C29_MappedIdsAreCommitted ==
    \A o \in Owners : \A id \in Range(mapFile[o].data) :
        \E c \in chunks : c.id = id /\ items[c.doc].exists /\ OwnerOf(c.doc) = o

\* C30: no chunk id occurs more than once in an owner's id mapping after any
\* sequence of add_batch and remove_chunks calls.
C30_NoDuplicateIds ==
    \A o \in Owners : \A i, j \in 1..Len(mapFile[o].data) :
        i # j => mapFile[o].data[i] # mapFile[o].data[j]

\* the flushed chunks of the call that has returned: every chunk but the last
Flushed == 1..(Len(chunkCall.chunks) - 1)

\* C21: for every text, max_words and overlap_words, no chunk that
\* semantic_chunk_text returns has more than max_words words.
C21_ChunksWithinMaxWords ==
    chunkCall.done =>
        \A i \in 1..Len(chunkCall.chunks) : Len(chunkCall.chunks[i]) <= chunkCall.max_words

\* the words at the head of chunk that were already in prev, the chunk before
\* it: the words carried over
LeadingOverlap(prev, chunk) ==
    SelectSeq(chunk, LAMBDA w : \E j \in 1..Len(prev) : prev[j] = w)

\* the words of seq after its first n
DropFirst(seq, n) == SubSeq(seq, n + 1, Len(seq))

RECURSIVE Rejoin(_, _)
Rejoin(cs, i) ==
    IF i > Len(cs) THEN <<>>
    ELSE (IF i = 1 THEN cs[1]
          ELSE DropFirst(cs[i], Len(LeadingOverlap(cs[i - 1], cs[i])))) \o Rejoin(cs, i + 1)

\* C22: concatenating the chunks, each but the first without the words it
\* carries over from the chunk before it, gives back the words of the text in
\* order; what is dropped from a chunk is what the previous chunk ends with.
C22_RejoinGivesText ==
    chunkCall.done =>
        /\ Rejoin(chunkCall.chunks, 1) = WordsOf(chunkCall.text)
        /\ \A i \in Flushed :
              LET o == LeadingOverlap(chunkCall.chunks[i], chunkCall.chunks[i + 1])
              IN /\ o = SubSeq(chunkCall.chunks[i + 1], 1, Len(o))
                 /\ o = PySuffix(chunkCall.chunks[i], Len(o))

\* C22 witness: a text of four words or more came back as three chunks or
\* more, the second starting with words of the first.
C22_Witness ==
    /\ chunkCall.done
    /\ chunkCall.text.n >= 4
    /\ Len(chunkCall.chunks) >= 3
    /\ chunkCall.overlap_words >= 1
    /\ LeadingOverlap(chunkCall.chunks[1], chunkCall.chunks[2]) # <<>>
    /\ Len(chunkCall.chunks[2]) > Len(LeadingOverlap(chunkCall.chunks[1], chunkCall.chunks[2]))

\* C26: the chunk after a flushed chunk begins with exactly the last
\* overlap_words words of the flushed chunk, with all of its words when it
\* has fewer, and with none of them when overlap_words is 0.
C26_OverlapIsLastWords ==
    chunkCall.done =>
        \A i \in Flushed :
            LeadingOverlap(chunkCall.chunks[i], chunkCall.chunks[i + 1]) =
                IF chunkCall.overlap_words = 0 THEN <<>>
                ELSE PySuffix(chunkCall.chunks[i], chunkCall.overlap_words)

\* C27: called with overlap_words >= max_words the chunker returns the chunks
\* it returns for overlap_words = max_words - 1.
C27_OverlapClamped ==
    (chunkCall.done /\ chunkCall.overlap_words >= chunkCall.max_words) =>
        chunkCall.chunks = SemanticChunkText(chunkCall.text, chunkCall.max_words,
                                             chunkCall.max_words - 1)

\* the calls of trace with the task_type of every Gemini call replaced
WithHint(trace, task_type) ==
    [i \in 1..Len(trace) |->
        IF trace[i].provider = "gemini" THEN Attempt("gemini", task_type) ELSE trace[i]]

\* C28: generate_query_embedding makes the provider calls generate_embedding
\* makes for providers that behave the same way (one Gemini call, then one
\* OpenAI call only if that failed), differing only in the task_type given to
\* Gemini, and returns the vector of the first call that succeeds.
C28_QueryFollowsDocumentSequence ==
    (embedCall.done /\ embedCall.fn = "generate_query_embedding") =>
        /\ embedCall.trace =
              WithHint(EmbeddingTrace(embedCall.text, embedCall.gq, embedCall.oa),
                       "retrieval_query")
        /\ embedCall.value =
              GenerateEmbedding(embedCall.text, embedCall.gq, embedCall.oa).value

\* the batches that hold a vector whose dimension is not the index's
BadBatches == {vecs \in VecBatches : \E i \in 1..Len(vecs) : Len(vecs[i]) # EMBEDDING_DIM}

\* the ids the step has appended to the caller's mapping
Appended == SubSeq(mapFile'[Caller].data, Len(Loaded(Caller).mapping) + 1,
                   Len(mapFile'[Caller].data))

\* C24: add_batch with ids and as many vectors, one of them of the wrong
\* dimension, raises, and an add_batch that raises leaves the owner's index
\* file and mapping file as they were: no add_batch that stores something
\* is such a call, every stored row has the index's dimension, and in every
\* state the files can be in (an add_batch of nothing is possible in each)
\* such a call raises.
C24_WrongDimensionRaises ==
    [][ ret'.op = "add_batch" =>
          /\ ret'.status = "raise" => UNCHANGED fsVars
          /\ fsVars' # fsVars =>
                /\ \A vecs \in BadBatches : ~add_batch(Caller, Appended, vecs)
                /\ \A i \in 1..Len(idxFile'[Caller].data) :
                      Len(idxFile'[Caller].data[i].v) = EMBEDDING_DIM
          /\ (ret'.status = "ok" /\ UNCHANGED fsVars) =>
                \A vecs \in BadBatches : \A ids \in IdBatches :
                    Len(ids) = Len(vecs) =>
                        AddOut(Loaded(Caller), ids, vecs).act = "raise" ]_vars

\* C24 witness: add_batch has just raised on an index that holds rows, which
\* are still there with their mapping.
C24_Witness ==
    /\ ret.op = "add_batch" /\ ret.status = "raise"
    /\ Len(idxFile[Caller].data) >= 2
    /\ Len(mapFile[Caller].data) = Len(idxFile[Caller].data)

C23_ReprocessReplacesChunks ==
    [][ (lastReq'.op = "update_library_item" /\ lastReq'.status = 200) =>
          LET d == lastReq'.doc
          IN /\ IdsOf(d) \cap {c.id : c \in chunks'} = {}
             /\ IdsOf(d) \cap Range(mapFile'[OwnerOf(d)].data) = {}
             /\ {c \in chunks' : c.doc = d} = NewChunks(d, nextUuid' - nextUuid)
             /\ \A c \in chunks' : c.doc = d => Seqno(c.id) > nextUuid
             /\ {c \in chunks' : c.doc # d} = {c \in chunks : c.doc # d}
             /\ \A c \in chunks' : (\E b \in chunks : b.id = c.id) => c \in chunks ]_vars

\* C23 witness: an update has answered 200, the document has chunks, all in
\* the owner's mapping, and an id that add_batch once stored is in neither
\* the mapping nor the record store although no document was deleted.
C23_Witness ==
    /\ lastReq.op = "update_library_item" /\ lastReq.status = 200
    /\ IdsOf(lastReq.doc) # {}
    /\ IdsOf(lastReq.doc) \subseteq Range(mapFile[Caller].data)
    /\ gone = {}
    /\ \E id \in added[Caller] :
          id \notin Range(mapFile[Caller].data) /\ id \notin {c.id : c \in chunks}

====
